---- MODULE Spec2Model ----
(***************************************************************************)
(* Syringe-Pump-Pro: the serial pump driver (scripts/pump.py), the two     *)
(* orchestrators that drive it (scripts/implement.py, scripts/             *)
(* aspirate_volume.py) and the timing model calculate_wait_time.           *)
(*                                                                         *)
(* Floats are carried as integer tenths (14.5 is 145, 500.0 is 5000) and   *)
(* rendered the way Python's str(float) renders them; durations are exact  *)
(* fractions <<numerator, denominator>>.                                   *)
(***************************************************************************)
EXTENDS Integers, Sequences, FiniteSets, TLC

VARIABLES
    script,      \* the caller: "implement", "aspirate", "client" (any caller of the driver), "calc"
    pc,          \* the caller's position (a source line of main, or "client"/"calc")
    input,       \* command-line arguments and the answers the user gives to the prompts
    ser,         \* SyringePump.ser: "None", or a Serial object that is "open" or "closed"
    wire,        \* the lines written to the serial channel, in order
    opens,       \* how many Serial objects were opened successfully
    closes,      \* how many close() calls were made
    discs,       \* disconnect() calls since the last successful connect
    cmd,         \* the command passed to the last send_command ("" before any)
    sends,       \* how many times send_command was entered
    ret,         \* what the last send_command returned: "None" or "response"
    rate_mlh,    \* SyringePump.rate_mlh (tenths, None when unset)
    volume_uL,   \* SyringePump.volume_uL (tenths, None when unset)
    direction,   \* SyringePump.direction ("None" when unset)
    last,        \* the driver method called last ("" before any call)
    calls,       \* how many driver methods were entered
    wfail,       \* how many serial writes raised an error
    rfail,       \* how many serial reads raised an error
    raised,      \* the exception the last driver call let out to its caller ("none" if it returned)
    pending,     \* the exception main() is handling or propagating ("none" if none)
    slept,       \* the durations main() passed to time.sleep, in order
    intr,        \* bookkeeping of interrupts: [n, at, open, wfail]
    exc,         \* bookkeeping of the first non-interrupt exception: [at, open]
    nCalls,      \* number of calls the free client has made
    calc,        \* the timing model's inputs and the two copies' results
    gen          \* the script generator's inputs and the text it returned

vars == <<script, pc, input, ser, wire, opens, closes, discs, cmd, sends, ret,
          rate_mlh, volume_uL, direction, last, calls, wfail, rfail, raised, pending, slept, intr,
          exc, nCalls, calc, gen>>

drvVars == <<ser, wire, opens, closes, discs, cmd, sends, ret, rate_mlh, volume_uL,
             direction, last, calls, wfail, rfail, raised>>

----------------------------------------------------------------------------
(* Bounds *)

\* The free client makes at most this many driver calls.
MaxCalls == 3

\* Volumes and rates of the timing model range over 0..MaxTenths tenths
\* (rates also over the non-positive values down to -MinRate tenths).
MaxTenths == 12

MinRate == 2

----------------------------------------------------------------------------
(* Values *)

\* Python's None for the numeric fields and optional numeric arguments.
None == -1

default_rate_mlh == 5

default_volume_uL == 50

default_direction == "INF"

TARGET_VOLUME_UL == 5000

ASPIRATION_RATE_MLH == 100

CRLF == "\r\n"

\* str(x) of a float x carried as t tenths, t >= 0: "14.5", "500.0".
FloatStr(t) == ToString(t \div 10) \o "." \o ToString(t % 10)

----------------------------------------------------------------------------
(* Exact fractions *)

RECURSIVE Gcd(_, _)
Gcd(a, b) == IF b = 0 THEN a ELSE Gcd(b, a % b)

Abs(a) == IF a < 0 THEN -a ELSE a

\* The fraction n/d (d # 0) in lowest terms with a positive denominator.
Rat(n, d) ==
    LET g == Gcd(Abs(n), Abs(d))
        s == IF d < 0 THEN -1 ELSE 1
    IN  <<(s * n) \div g, (s * d) \div g>>

RatAdd(x, y) == Rat(x[1] * y[2] + y[1] * x[2], x[2] * y[2])

RatMul(x, y) == Rat(x[1] * y[1], x[2] * y[2])

\* Python's x / y: ZeroDivisionError when y is zero.
RatDiv(x, y) ==
    IF y[1] = 0 THEN [raised |-> "ZeroDivisionError", val |-> <<0, 1>>]
    ELSE [raised |-> "none", val |-> Rat(x[1] * y[2], x[2] * y[1])]

\* The float carried as t tenths.
Tenths(t) == Rat(t, 10)

Returns(v) == [raised |-> "none", val |-> v]

----------------------------------------------------------------------------
(* Timing model: the two copies of calculate_wait_time *)

\* A copy of the function without the one-second buffer.
implement_calculate_wait_time_NoBuffer(volume_uL_t, rate_mlh_t) ==
    IF rate_mlh_t <= 0 THEN Returns(<<0, 1>>)
    ELSE LET q1 == RatDiv(Tenths(volume_uL_t), <<1000, 1>>)
             q2 == RatDiv(q1.val, Tenths(rate_mlh_t))
         IN  Returns(RatMul(q2.val, <<3600, 1>>))

\* implement.py calculate_wait_time: 0 when rate_mlh <= 0, otherwise
\* (volume_uL / 1000 / rate_mlh) * 3600, then + 1.0, evaluated in that order.
implement_calculate_wait_time(volume_uL_t, rate_mlh_t) ==
    IF rate_mlh_t <= 0 THEN Returns(<<0, 1>>)
    ELSE LET q1 == RatDiv(Tenths(volume_uL_t), <<1000, 1>>)
             q2 == RatDiv(q1.val, Tenths(rate_mlh_t))
         IN  IF q2.raised # "none" THEN q2
             ELSE LET wait_seconds == RatMul(q2.val, <<3600, 1>>)
                  IN  Returns(RatAdd(wait_seconds, <<1, 1>>))

\* aspirate_volume.py calculate_wait_time (a textual copy of the above).
aspirate_calculate_wait_time(volume_uL_t, rate_mlh_t) ==
    IF rate_mlh_t <= 0 THEN Returns(<<0, 1>>)
    ELSE LET q1 == RatDiv(Tenths(volume_uL_t), <<1000, 1>>)
             q2 == RatDiv(q1.val, Tenths(rate_mlh_t))
         IN  IF q2.raised # "none" THEN q2
             ELSE LET wait_seconds == RatMul(q2.val, <<3600, 1>>)
                  IN  Returns(RatAdd(wait_seconds, <<1, 1>>))

----------------------------------------------------------------------------
(* Pump driver: class SyringePump.  Each method is an operator from the   *)
(* driver state d (the object's fields and its serial channel) and the    *)
(* outcome io of the I/O it performs to the driver state after the call;  *)
(* d.raised is the exception the call lets out to its caller.             *)

\* The driver state as a record.
Drv ==
    [ser |-> ser, wire |-> wire, opens |-> opens, closes |-> closes,
     discs |-> discs, cmd |-> cmd, sends |-> sends, ret |-> ret,
     rate_mlh |-> rate_mlh, volume_uL |-> volume_uL, direction |-> direction,
     last |-> last, calls |-> calls, wfail |-> wfail, rfail |-> rfail, raised |-> raised]

\* SyringePump.__init__: no connection, no user settings.
NewPump ==
    [ser |-> "None", wire |-> <<>>, opens |-> 0, closes |-> 0,
     discs |-> 0, cmd |-> "", sends |-> 0, ret |-> "None",
     rate_mlh |-> None, volume_uL |-> None, direction |-> "None",
     last |-> "", calls |-> 0, wfail |-> 0, rfail |-> 0, raised |-> "none"]

\* Serial.is_open of the object d.ser refers to.
is_open(d) == d.ser = "open"

\* connect with the except clause dropped: the error of a failed open reaches the caller.
connect_Raising(d, io) ==
    LET e == [d EXCEPT !.last = "connect", !.calls = @ + 1, !.raised = "none"]
    IN  CASE io = "ok"        -> [e EXCEPT !.ser = "open", !.opens = @ + 1, !.discs = 0]
          [] io = "error"     -> [e EXCEPT !.raised = "SerialException"]
          [] io = "interrupt" -> [e EXCEPT !.raised = "KeyboardInterrupt"]
          [] OTHER            -> e

\* connect(): serial.Serial(...) opens the port; any Exception is caught and
\* leaves ser = None; an interrupt is not an Exception and passes through.
connect(d, io) ==
    LET e == [d EXCEPT !.last = "connect", !.calls = @ + 1, !.raised = "none"]
    IN  CASE io = "ok"        -> [e EXCEPT !.ser = "open", !.opens = @ + 1, !.discs = 0]
          [] io = "error"     -> [e EXCEPT !.ser = "None"]
          [] io = "interrupt" -> [e EXCEPT !.raised = "KeyboardInterrupt"]
          [] OTHER            -> e

\* disconnect without the is_open test: closes whatever object ser holds.
disconnect_NoOpenTest(d) ==
    LET e == [d EXCEPT !.last = "disconnect", !.calls = @ + 1, !.raised = "none", !.discs = @ + 1]
    IN  IF e.ser # "None"
        THEN [e EXCEPT !.ser = "closed", !.closes = @ + 1]
        ELSE e

\* disconnect without the close: the channel stays as it was.
disconnect_NoClose(d) ==
    [d EXCEPT !.last = "disconnect", !.calls = @ + 1, !.raised = "none", !.discs = @ + 1]

\* disconnect(): close the channel if there is one and it is open.
disconnect(d) ==
    LET e == [d EXCEPT !.last = "disconnect", !.calls = @ + 1, !.raised = "none", !.discs = @ + 1]
    IN  IF e.ser # "None" /\ is_open(e)
        THEN [e EXCEPT !.ser = "closed", !.closes = @ + 1]
        ELSE e

\* send_command without the try/except around the write and the read.
send_command_Raising(d, command, io) ==
    LET e == [d EXCEPT !.cmd = command, !.sends = @ + 1, !.raised = "none"] IN
    IF e.ser = "None" \/ ~is_open(e)
    THEN [e EXCEPT !.ret = "None"]
    ELSE CASE io = "error" ->
                [e EXCEPT !.wfail = @ + 1, !.raised = "SerialException"]
           [] io = "read_error" ->
                [e EXCEPT !.wire = Append(@, command \o CRLF), !.rfail = @ + 1,
                          !.raised = "SerialException"]
           [] io = "interrupt" ->
                [e EXCEPT !.wire = Append(@, command \o CRLF),
                          !.raised = "KeyboardInterrupt"]
           [] OTHER ->
                [e EXCEPT !.wire = Append(@, command \o CRLF), !.ret = "response"]

\* send_command(command): None when there is no open channel; otherwise write
\* command + CRLF, sleep 0.5 s, read and return the reply; an Exception of the
\* write ("error") or of the read ("read_error") is caught and None returned;
\* an interrupt during the settle delay passes through to the caller.
send_command(d, command, io) ==
    LET e == [d EXCEPT !.cmd = command, !.sends = @ + 1, !.raised = "none"] IN
    IF e.ser = "None" \/ ~is_open(e)
    THEN [e EXCEPT !.ret = "None"]
    ELSE CASE io = "error" ->
                [e EXCEPT !.wfail = @ + 1, !.ret = "None"]
           [] io = "read_error" ->
                [e EXCEPT !.wire = Append(@, command \o CRLF), !.rfail = @ + 1,
                          !.ret = "None"]
           [] io = "interrupt" ->
                [e EXCEPT !.wire = Append(@, command \o CRLF),
                          !.raised = "KeyboardInterrupt"]
           [] OTHER ->
                [e EXCEPT !.wire = Append(@, command \o CRLF), !.ret = "response"]

\* set_rate that stores the value only once the pump has answered.
set_rate_StoreOnSuccess(d, x, io) ==
    LET v == IF x # None THEN x ELSE default_rate_mlh
        e == [d EXCEPT !.last = "set_rate", !.calls = @ + 1]
        r == send_command(e, "RAT " \o FloatStr(v) \o " MH", io)
    IN  IF r.ret = "None" THEN r ELSE [r EXCEPT !.rate_mlh = v]

\* set_rate(rate_mlh=None): store the value (or the default), send RAT.
set_rate(d, x, io) ==
    LET v == IF x # None THEN x ELSE default_rate_mlh
        e == [d EXCEPT !.last = "set_rate", !.calls = @ + 1, !.rate_mlh = v]
    IN  send_command(e, "RAT " \o FloatStr(v) \o " MH", io)

\* set_volume(volume_uL=None): store the value (or the default), send VOL.
set_volume(d, x, io) ==
    LET v == IF x # None THEN x ELSE default_volume_uL
        e == [d EXCEPT !.last = "set_volume", !.calls = @ + 1, !.volume_uL = v]
    IN  send_command(e, "VOL " \o FloatStr(v) \o " uL", io)

\* set_direction(direction=None): store the value (or the default), send DIRE.
set_direction(d, x, io) ==
    LET v == IF x # "None" THEN x ELSE default_direction
        e == [d EXCEPT !.last = "set_direction", !.calls = @ + 1, !.direction = v]
    IN  send_command(e, "DIRE " \o v, io)

\* run(): send RUN.
run(d, io) == send_command([d EXCEPT !.last = "run", !.calls = @ + 1], "RUN", io)

\* stop with the wrong command word: it sends RUN.
stop_SendsRun(d, io) == send_command([d EXCEPT !.last = "stop", !.calls = @ + 1], "RUN", io)

\* stop(): send STP.
stop(d, io) == send_command([d EXCEPT !.last = "stop", !.calls = @ + 1], "STP", io)

\* reset(): send RST.
reset(d, io) == send_command([d EXCEPT !.last = "reset", !.calls = @ + 1], "RST", io)

----------------------------------------------------------------------------
(* Calling a method of the driver object *)

\* The methods class SyringePump defines, with the number of positional
\* arguments each accepts (beside self).  There is no set_diameter.
SyringePumpMethods ==
    [connect       |-> [min |-> 0, max |-> 0],
     disconnect    |-> [min |-> 0, max |-> 0],
     send_command  |-> [min |-> 1, max |-> 1],
     set_rate      |-> [min |-> 0, max |-> 1],
     set_volume    |-> [min |-> 0, max |-> 1],
     set_direction |-> [min |-> 0, max |-> 1],
     run           |-> [min |-> 0, max |-> 0],
     stop          |-> [min |-> 0, max |-> 0],
     reset         |-> [min |-> 0, max |-> 0]]

\* The outcomes the I/O of a method can have.
Outcomes(m) ==
    CASE m = "connect"    -> {"ok", "error", "interrupt"}
      [] m = "disconnect" -> {"ok"}
      [] OTHER            -> {"ok", "error", "read_error", "interrupt"}

\* A driver whose set_diameter is a stub that sends nothing and whose methods
\* ignore surplus arguments: every call goes through.
Invoke_Lenient(d, m, args, io) ==
    CASE m = "connect"       -> connect(d, io)
      [] m = "disconnect"    -> disconnect(d)
      [] m = "send_command"  -> send_command([d EXCEPT !.last = "send_command", !.calls = @ + 1], args[1], io)
      [] m = "set_rate"      -> set_rate(d, IF Len(args) = 0 THEN None ELSE args[1], io)
      [] m = "set_volume"    -> set_volume(d, IF Len(args) = 0 THEN None ELSE args[1], io)
      [] m = "set_direction" -> set_direction(d, IF Len(args) = 0 THEN "None" ELSE args[1], io)
      [] m = "run"           -> run(d, io)
      [] m = "stop"          -> stop(d, io)
      [] m = "reset"         -> reset(d, io)
      [] OTHER               -> [d EXCEPT !.last = m, !.calls = @ + 1, !.raised = "none"]

\* Python's pump.m(*args): AttributeError when the class has no such method,
\* TypeError when the arguments do not fit its signature, otherwise the call.
Invoke(d, m, args, io) ==
    IF m \notin DOMAIN SyringePumpMethods
    THEN [d EXCEPT !.raised = "AttributeError"]
    ELSE IF Len(args) < SyringePumpMethods[m].min \/ Len(args) > SyringePumpMethods[m].max
    THEN [d EXCEPT !.raised = "TypeError"]
    ELSE CASE m = "connect"       -> connect(d, io)
           [] m = "disconnect"    -> disconnect(d)
           [] m = "send_command"  -> send_command([d EXCEPT !.last = "send_command", !.calls = @ + 1], args[1], io)
           [] m = "set_rate"      -> set_rate(d, IF Len(args) = 0 THEN None ELSE args[1], io)
           [] m = "set_volume"    -> set_volume(d, IF Len(args) = 0 THEN None ELSE args[1], io)
           [] m = "set_direction" -> set_direction(d, IF Len(args) = 0 THEN "None" ELSE args[1], io)
           [] m = "run"           -> run(d, io)
           [] m = "stop"          -> stop(d, io)
           [] m = "reset"         -> reset(d, io)

\* The driver variables take the values of the record r.
SetDrv(r) ==
    /\ ser' = r.ser
    /\ wire' = r.wire
    /\ opens' = r.opens
    /\ closes' = r.closes
    /\ discs' = r.discs
    /\ cmd' = r.cmd
    /\ sends' = r.sends
    /\ ret' = r.ret
    /\ rate_mlh' = r.rate_mlh
    /\ volume_uL' = r.volume_uL
    /\ direction' = r.direction
    /\ last' = r.last
    /\ calls' = r.calls
    /\ wfail' = r.wfail
    /\ rfail' = r.rfail
    /\ raised' = r.raised

\* The driver variables start as the record r.
SetDrvInit(r) ==
    /\ ser = r.ser
    /\ wire = r.wire
    /\ opens = r.opens
    /\ closes = r.closes
    /\ discs = r.discs
    /\ cmd = r.cmd
    /\ sends = r.sends
    /\ ret = r.ret
    /\ rate_mlh = r.rate_mlh
    /\ volume_uL = r.volume_uL
    /\ direction = r.direction
    /\ last = r.last
    /\ calls = r.calls
    /\ wfail = r.wfail
    /\ rfail = r.rfail
    /\ raised = r.raised

----------------------------------------------------------------------------
(* The orchestrators: main() of implement.py and of aspirate_volume.py as  *)
(* a table from source line to statement.                                  *)

Call(m, args, next) == [op |-> "call", m |-> m, args |-> args, next |-> next]

\* if pump.ser is None: return
IfSerNone(next) == [op |-> "if_ser_none", next |-> next]

\* time.sleep(calculate_wait_time(volume, rate))
Sleep(w, next) == [op |-> "sleep", w |-> w, next |-> next]

\* A handler that does nothing.
Pass == [op |-> "pass", next |-> "finally"]

\* A finally clause that does not disconnect.
NoDisconnect == [op |-> "pass", next |-> "done"]

\* implement.py, except (KeyboardInterrupt): pump.stop()
implement_except_KeyboardInterrupt == Call("stop", <<>>, "finally")

\* implement.py, except Exception: only prints.
implement_except_Exception == [op |-> "pass", next |-> "finally"]

\* implement.py, finally: pump.disconnect()
implement_finally == Call("disconnect", <<>>, "done")

\* aspirate_volume.py, except KeyboardInterrupt: pump.stop()
aspirate_except_KeyboardInterrupt == Call("stop", <<>>, "finally")

\* aspirate_volume.py, except Exception: if pump and pump.ser: pump.stop()
aspirate_except_Exception == [op |-> "stop_if_ser", next |-> "finally"]

\* aspirate_volume.py, finally: pump.disconnect()
aspirate_finally == Call("disconnect", <<>>, "done")

\* implement.py main(), lines 69-140.
implement_main(p) ==
    CASE p = "L70"  -> Call("connect", <<>>, "L71")
      [] p = "L71"  -> IfSerNone("L76")
      [] p = "L76"  -> Call("reset", <<>>, "L77")
      [] p = "L77"  -> Call("set_diameter", <<input.dia>>, "L78")
      [] p = "L78"  -> Call("set_direction", <<"INF">>, "L85")
      [] p = "L85"  -> [op |-> "prompt_type"]
      [] p = "L92"  -> [op |-> "prompt_params", next |-> "L95"]
      [] p = "L95"  -> Call("set_volume", <<input.l_vol, "UL">>, "L96")
      [] p = "L96"  -> Call("set_rate", <<input.l_rate, "MH">>, "L97")
      [] p = "L97"  -> Call("run", <<>>, "L98")
      [] p = "L98"  -> Sleep(implement_calculate_wait_time(input.l_vol, input.l_rate), "L101")
      [] p = "L101" -> Call("stop", <<>>, "finally")
      [] p = "L105" -> [op |-> "prompt_params", next |-> "L111"]
      [] p = "L111" -> Call("set_volume", <<input.l_vol, "UL">>, "L112")
      [] p = "L112" -> Call("set_rate", <<input.l_rate, "MH">>, "L113")
      [] p = "L113" -> Call("run", <<>>, "L114")
      [] p = "L114" -> Sleep(implement_calculate_wait_time(input.l_vol, input.l_rate), "L117")
      [] p = "L117" -> Call("stop", <<>>, "L122")
      [] p = "L122" -> Call("set_volume", <<input.t_vol, "UL">>, "L123")
      [] p = "L123" -> Call("set_rate", <<input.t_rate, "MH">>, "L124")
      [] p = "L124" -> Call("run", <<>>, "L125")
      [] p = "L125" -> Sleep(implement_calculate_wait_time(input.t_vol, input.t_rate), "L128")
      [] p = "L128" -> Call("stop", <<>>, "finally")
      [] p = "except KeyboardInterrupt" -> implement_except_KeyboardInterrupt
      [] p = "except Exception" -> implement_except_Exception
      [] p = "finally" -> implement_finally

\* aspirate_volume.py main(), lines 40-90.
aspirate_main(p) ==
    CASE p = "L41" -> Call("connect", <<>>, "L42")
      [] p = "L42" -> IfSerNone("L49")
      [] p = "L49" -> Call("reset", <<>>, "L50")
      [] p = "L50" -> Call("set_diameter", <<input.dia>>, "L51")
      [] p = "L51" -> Call("set_direction", <<"WDR">>, "L59")
      [] p = "L59" -> Call("set_rate", <<ASPIRATION_RATE_MLH, "MH">>, "L60")
      [] p = "L60" -> Call("set_volume", <<TARGET_VOLUME_UL, "UL">>, "L64")
      [] p = "L64" -> Call("run", <<>>, "L68")
      [] p = "L68" -> Sleep(aspirate_calculate_wait_time(TARGET_VOLUME_UL, ASPIRATION_RATE_MLH), "L74")
      [] p = "L74" -> Call("stop", <<>>, "finally")
      [] p = "except KeyboardInterrupt" -> aspirate_except_KeyboardInterrupt
      [] p = "except Exception" -> aspirate_except_Exception
      [] p = "finally" -> aspirate_finally

\* The statement main() of the running script is at.
Stmt == IF script = "implement" THEN implement_main(pc) ELSE aspirate_main(pc)

\* The first statement of the try block.
Entry(s) == IF s = "implement" THEN "L70" ELSE "L41"

Handlers == {"except KeyboardInterrupt", "except Exception"}

InMain == script \in {"implement", "aspirate"}

----------------------------------------------------------------------------
(* Inputs and initial states *)

\* --dia values (tenths of a millimetre).
Diameters == {46, 145}

\* Answers to the volume and rate prompts: positive floats (is_positive_float).
PromptVolumes == {10, 70}

PromptRates == {5, 10}

\* What the user will answer: the experiment type ("None" when that prompt
\* is cancelled), whether the parameter prompt is cancelled, and the values.
Inputs ==
    [dia : Diameters, choice : {"None", "single", "coalescence"}, cancel : BOOLEAN,
     l_vol : PromptVolumes, l_rate : PromptRates,
     t_vol : PromptVolumes, t_rate : PromptRates]

\* aspirate_volume.py and the free client ask nothing.
NoPrompts(dia) ==
    [dia |-> dia, choice |-> "None", cancel |-> FALSE,
     l_vol |-> 10, l_rate |-> 5, t_vol |-> 10, t_rate |-> 5]

NoIntr == [n |-> 0, at |-> -1, open |-> FALSE, wfail |-> 0]

NoExc == [at |-> -1, open |-> FALSE]

NoCalc == [volume |-> 0, rate |-> 0, implement |-> <<>>, aspirate |-> <<>>]

\* A YAML number: an integer n, or a float of t tenths.
YInt(n) == [float |-> FALSE, v |-> n]

YFloat(t) == [float |-> TRUE, v |-> t]

NoGen == [leading |-> YInt(1), trailing |-> YInt(1), rate |-> YInt(1), wait |-> YInt(1),
          out |-> <<>>]

\* The state after SyringePump(port=..., baudrate=...) and before the try block.
Init ==
    /\ script \in {"implement", "aspirate", "client"}
    /\ pc = IF script = "client" THEN "client" ELSE Entry(script)
    /\ input \in IF script = "implement" THEN Inputs
                 ELSE {NoPrompts(dia) : dia \in Diameters}
    /\ SetDrvInit(NewPump)
    /\ pending = "none"
    /\ slept = <<>>
    /\ intr = NoIntr
    /\ exc = NoExc
    /\ nCalls = 0
    /\ calc = NoCalc
    /\ gen = NoGen

----------------------------------------------------------------------------
(* Actions *)

\* Where control goes after a driver call at pc that let out exception e
\* ("none": it returned), the driver state then being r.
Flow(r, e, next) ==
    IF pc \in Handlers \/ pc = "finally"
    THEN \* an exception inside a handler leaves main() through the finally clause
         /\ pc' = IF pc = "finally" THEN "done" ELSE "finally"
         /\ pending' = IF e # "none" THEN e ELSE IF pc = "finally" THEN pending ELSE "none"
         /\ intr' = IF e = "KeyboardInterrupt" THEN [intr EXCEPT !.n = @ + 1] ELSE intr
         /\ exc' = exc
    ELSE CASE e = "none" ->
                /\ pc' = next
                /\ UNCHANGED <<pending, intr, exc>>
           [] e = "KeyboardInterrupt" ->
                /\ pc' = "except KeyboardInterrupt"
                /\ pending' = e
                /\ intr' = [n |-> intr.n + 1, at |-> Len(r.wire),
                            open |-> r.ser = "open", wfail |-> r.wfail]
                /\ exc' = exc
           [] e = "SystemExit" ->
                /\ pc' = "finally"
                /\ pending' = e
                /\ UNCHANGED <<intr, exc>>
           [] OTHER ->
                /\ pc' = "except Exception"
                /\ pending' = e
                /\ intr' = intr
                /\ exc' = [at |-> Len(r.wire), open |-> r.ser = "open"]

\* main() executes the statement it is at.
Step ==
    /\ InMain
    /\ pc # "done"
    /\ LET st == Stmt IN
       CASE st.op = "call" ->
              \E io \in Outcomes(st.m) :
                  LET r == Invoke(Drv, st.m, st.args, io) IN
                  /\ SetDrv(r)
                  /\ Flow(r, r.raised, st.next)
                  /\ UNCHANGED slept
         [] st.op = "if_ser_none" ->
              /\ pc' = IF ser = "None" THEN "finally" ELSE st.next
              /\ UNCHANGED <<drvVars, pending, slept, intr, exc>>
         [] st.op = "prompt_type" ->
              /\ pc' = CASE input.choice = "single" -> "L92"
                         [] input.choice = "coalescence" -> "L105"
                         [] OTHER -> "finally"
              /\ UNCHANGED <<drvVars, pending, slept, intr, exc>>
         [] st.op = "prompt_params" ->
              /\ Flow(Drv, IF input.cancel THEN "SystemExit" ELSE "none", st.next)
              /\ UNCHANGED <<drvVars, slept>>
         [] st.op = "sleep" ->
              /\ slept' = IF st.w.raised = "none" THEN Append(slept, st.w.val) ELSE slept
              /\ Flow(Drv, st.w.raised, st.next)
              /\ UNCHANGED drvVars
         [] st.op = "pass" ->
              /\ Flow(Drv, "none", st.next)
              /\ UNCHANGED <<drvVars, slept>>
         [] st.op = "stop_if_ser" ->
              \E io \in Outcomes("stop") :
                  LET r == IF ser # "None" THEN Invoke(Drv, "stop", <<>>, io)
                           ELSE [Drv EXCEPT !.raised = "none"] IN
                  /\ SetDrv(r)
                  /\ Flow(r, r.raised, st.next)
                  /\ UNCHANGED slept
    /\ UNCHANGED <<script, input, nCalls, calc, gen>>

\* The interrupt signal arrives between two statements of main(), inside the
\* try block (also while it sleeps or waits at a statement) or inside a handler.
Interrupt ==
    /\ InMain
    /\ pc \notin {"finally", "done"}
    /\ Flow(Drv, "KeyboardInterrupt", pc)
    /\ raised' = "KeyboardInterrupt"
    /\ UNCHANGED <<script, input, ser, wire, opens, closes, discs, cmd, sends, ret, rate_mlh,
                   volume_uL, direction, last, calls, wfail, rfail, slept, nCalls, calc, gen>>

\* The calls a caller of the driver can make.
ClientCalls ==
    {<<"connect", <<>>>>, <<"disconnect", <<>>>>,
     <<"send_command", <<"RUN">>>>, <<"send_command", <<"VER">>>>,
     <<"set_rate", <<>>>>, <<"set_rate", <<20>>>>,
     <<"set_volume", <<>>>>, <<"set_volume", <<10>>>>,
     <<"set_direction", <<>>>>, <<"set_direction", <<"WDR">>>>,
     <<"run", <<>>>>, <<"stop", <<>>>>, <<"reset", <<>>>>}

\* Any caller makes any driver call (connect only while no channel is open).
ClientCall ==
    /\ script = "client"
    /\ nCalls < MaxCalls
    /\ \E c \in ClientCalls :
         /\ c[1] = "connect" => ser # "open"
         /\ \E io \in Outcomes(c[1]) : SetDrv(Invoke(Drv, c[1], c[2], io))
    /\ nCalls' = nCalls + 1
    /\ UNCHANGED <<script, pc, input, pending, slept, intr, exc, calc, gen>>

Next == Step \/ Interrupt \/ ClientCall

Spec == Init /\ [][Next]_vars

----------------------------------------------------------------------------
(* The timing model on its own *)

CalcVolumes == (0 .. MaxTenths) \cup {TARGET_VOLUME_UL}

CalcRates == ((0 - MinRate) .. MaxTenths) \cup {ASPIRATION_RATE_MLH}

InitCalc ==
    /\ script = "calc"
    /\ pc = "calc"
    /\ input = NoPrompts(145)
    /\ SetDrvInit(NewPump)
    /\ pending = "none"
    /\ slept = <<>>
    /\ intr = NoIntr
    /\ exc = NoExc
    /\ nCalls = 0
    /\ calc \in [volume : CalcVolumes, rate : CalcRates,
                 implement : {<<>>}, aspirate : {<<>>}]
    /\ gen = NoGen

\* implement.py's copy is applied to the inputs.
CalcImplement ==
    /\ script = "calc"
    /\ calc.implement = <<>>
    /\ calc' = [calc EXCEPT !.implement =
                    <<implement_calculate_wait_time(calc.volume, calc.rate)>>]
    /\ UNCHANGED <<script, pc, input, drvVars, pending, slept, intr, exc, nCalls, gen>>

\* aspirate_volume.py's copy is applied to the inputs.
CalcAspirate ==
    /\ script = "calc"
    /\ calc.aspirate = <<>>
    /\ calc' = [calc EXCEPT !.aspirate =
                    <<aspirate_calculate_wait_time(calc.volume, calc.rate)>>]
    /\ UNCHANGED <<script, pc, input, drvVars, pending, slept, intr, exc, nCalls, gen>>

NextCalc == CalcImplement \/ CalcAspirate

SpecCalc == InitCalc /\ [][NextCalc]_vars

----------------------------------------------------------------------------
(* Helpers of the properties *)

STP == "STP" \o CRLF

\* The lines written after the first n.
After(n) == SubSeq(wire, n + 1, Len(wire))

\* Line l starts with the text p.
StartsWith(l, p) == Len(l) >= Len(p) /\ SubSeq(l, 1, Len(p)) = p

\* The verb of a line: its first three characters.
Verb(l) == SubSeq(l, 1, 3)

Verbs(w) == [i \in 1 .. Len(w) |-> Verb(w[i])]

\* main() has returned or let its exception out.
Terminated == InMain /\ pc = "done"

----------------------------------------------------------------------------
(* C1 *)

\* C1: in every execution of main() of either script, however the try block
\* is left, disconnect() is the last driver call made, and at termination
\* the serial channel is not open.
C1_DisconnectLast ==
    Terminated => last = "disconnect" /\ ser # "open"

\* main() ended by an interrupt after a successful connect, channel closed.
C1_Witness ==
    /\ Terminated
    /\ last = "disconnect"
    /\ ser = "closed"
    /\ intr.at >= 0
    /\ intr.open

----------------------------------------------------------------------------
(* C2 *)

\* C2: if an exception other than the interrupt is raised in the try block
\* of main() while the pump is connected, STP is written after it, before
\* the connection is closed.  Stated for runs with no interrupt and no
\* serial I/O error.
C2_StopAfterException ==
    (/\ Terminated
     /\ exc.at >= 0
     /\ exc.open
     /\ intr.n = 0
     /\ wfail = 0
     /\ rfail = 0)
    => \E i \in (exc.at + 1) .. Len(wire) : wire[i] = STP

----------------------------------------------------------------------------
(* C3 *)

\* C3: once the interrupt has arrived inside the try block of main() with
\* the connection open, nothing but a single STP is written from then on,
\* the channel is closed only by the final disconnect, it is closed at
\* termination, and the STP has been written by then unless its write
\* raised an error or a further interrupt arrived in the handler.
C3_InterruptStops ==
    (InMain /\ intr.at >= 0 /\ intr.open) =>
        /\ After(intr.at) \in {<<>>, <<STP>>}
        /\ ser = "closed" => pc = "done"
        /\ pc = "done" =>
              /\ ser = "closed"
              /\ (intr.n = 1 /\ wfail = intr.wfail) => After(intr.at) = <<STP>>

\* An interrupt after the RST was written (in or after its settle delay),
\* answered by STP and the close.
C3_Witness ==
    /\ Terminated
    /\ intr.at = 1
    /\ intr.open
    /\ wire = <<"RST" \o CRLF, STP>>
    /\ ser = "closed"

----------------------------------------------------------------------------
(* C4, C5 *)

\* An uninterrupted run of implement.py with a successful connection, all
\* prompts answered and no serial I/O error, has terminated.
ImplementRan(choice) ==
    /\ script = "implement"
    /\ pc = "done"
    /\ input.choice = choice
    /\ ~input.cancel
    /\ opens = 1
    /\ intr.n = 0
    /\ wfail = 0
    /\ rfail = 0

\* d seconds is (volume/1000/rate)*3600 + 1.0 for v tenths of a microlitre
\* and r > 0 tenths of a mL/h, as a cross-multiplied equation of integers.
IsWait(d, v, r) == d[1] * (1000 * r) = (3600 * v + 1000 * r) * d[2]

\* C4: a single experiment of implement.py with a successful connection and
\* no interrupt writes RST, DIA <dia>, direction INF, VOL <volume>,
\* RAT <rate>, RUN and, after the wait, STP, in this order, and is stopped
\* before the connection is closed.
C4_SingleSequence ==
    ImplementRan("single") =>
        /\ Len(wire) = 7
        /\ Verbs(wire) = <<"RST", "DIA", "DIR", "VOL", "RAT", "RUN", "STP">>
        /\ StartsWith(wire[2], "DIA " \o FloatStr(input.dia))
        /\ wire[3] \in {"DIR INF" \o CRLF, "DIRE INF" \o CRLF}
        /\ StartsWith(wire[4], "VOL " \o FloatStr(input.l_vol))
        /\ StartsWith(wire[5], "RAT " \o FloatStr(input.l_rate))
        /\ Len(slept) = 1
        /\ ser = "closed"

\* C5: a coalescence experiment of implement.py with a successful connection
\* and no interrupt writes exactly two RUN and two STP, alternating RUN, STP,
\* RUN, STP, each RUN right after the VOL and RAT of its own droplet, the
\* trailing RUN after the leading STP.
C5_CoalescenceSequence ==
    ImplementRan("coalescence") =>
        /\ Len(wire) = 11
        /\ Verbs(wire) = <<"RST", "DIA", "DIR", "VOL", "RAT", "RUN", "STP",
                           "VOL", "RAT", "RUN", "STP">>
        /\ StartsWith(wire[4], "VOL " \o FloatStr(input.l_vol))
        /\ StartsWith(wire[5], "RAT " \o FloatStr(input.l_rate))
        /\ StartsWith(wire[8], "VOL " \o FloatStr(input.t_vol))
        /\ StartsWith(wire[9], "RAT " \o FloatStr(input.t_rate))
        /\ Len(slept) = 2
        /\ ser = "closed"

----------------------------------------------------------------------------
(* C6 *)

\* C6: send_command fails softly.  In every step that enters send_command:
\* no exception but the interrupt reaches the caller; with the connection
\* unset or not open nothing is written and None is returned; when the
\* write or the read raises an error None is returned; with an open
\* connection exactly the command followed by CR LF is written, once,
\* unless the write itself raised.
C6_SendFailsSoftly ==
    [][sends' = sends + 1 =>
          /\ raised' \in {"none", "KeyboardInterrupt"}
          /\ ser # "open" => (wire' = wire /\ ret' = "None" /\ raised' = "none")
          /\ (wfail' # wfail \/ rfail' # rfail) => (ret' = "None" /\ raised' = "none")
          /\ (ser = "open" /\ wfail' = wfail) => wire' = Append(wire, cmd' \o CRLF)
          /\ (ser = "open" /\ wfail' # wfail) => wire' = wire
          /\ ser' = ser]_vars

\* Both soft failures have happened on an open connection: the write that
\* raised left nothing on the wire, the read that raised came after its
\* command was written, and None was returned.
C6_Witness ==
    /\ script = "client"
    /\ ser = "open"
    /\ wfail = 1
    /\ rfail = 1
    /\ Len(wire) = 1
    /\ ret = "None"
    /\ raised = "none"

----------------------------------------------------------------------------
(* C7 *)

\* C7: connect() lets no error of the open out and leaves ser = None when
\* the open fails; from a state with ser = None no step writes a line or
\* closes anything; main() that ends with ser = None has written nothing.
C7_ConnectFailure ==
    [][/\ raised' \notin {"SerialException"}
       /\ (calls' # calls /\ last' = "connect" /\ raised' = "none" /\ opens' = opens)
             => ser' = "None"
       /\ ser = "None" => (wire' = wire /\ closes' = closes /\ raised' # "SerialException")
       /\ (InMain /\ pc' = "done" /\ ser' = "None") => wire' = <<>>]_vars

\* main() terminated after a failed connect: nothing written, nothing raised.
C7_Witness ==
    /\ Terminated
    /\ ser = "None"
    /\ opens = 0
    /\ intr.n = 0
    /\ pending = "none"
    /\ last = "disconnect"
    /\ wire = <<>>

\* A caller went on calling the driver after a failed connect.
C7_WitnessClient ==
    /\ script = "client"
    /\ ser = "None"
    /\ opens = 0
    /\ sends >= 1
    /\ discs >= 1
    /\ wire = <<>>

----------------------------------------------------------------------------
(* C8 *)

\* C8: disconnect() is idempotent.  A disconnect() on a connection that is
\* unset or already closed changes nothing on the channel and raises
\* nothing; on an open connection it closes it; a second disconnect() gives
\* the state of the first; every connection opened is closed at most once.
C8_DisconnectIdempotent ==
    /\ disconnect(Drv).raised = "none"
    /\ disconnect(Drv).wire = wire
    /\ ser # "open" => (disconnect(Drv).ser = ser /\ disconnect(Drv).closes = closes)
    /\ ser = "open" => (disconnect(Drv).ser = "closed" /\ disconnect(Drv).closes = closes + 1)
    /\ [disconnect(disconnect(Drv)) EXCEPT !.discs = 0, !.calls = 0]
         = [disconnect(Drv) EXCEPT !.discs = 0, !.calls = 0]
    /\ closes = IF ser = "open" THEN opens - 1 ELSE opens

\* disconnect() was called at least twice on a connection that was open.
C8_Witness ==
    /\ ser = "closed"
    /\ last = "disconnect"
    /\ discs >= 2
    /\ opens = 1
    /\ closes = 1

----------------------------------------------------------------------------
(* C9 *)

\* A result r of calculate_wait_time for the inputs of calc is what the
\* timing model prescribes.
WaitAsSpecified(r) ==
    /\ r.raised = "none"
    /\ calc.rate <= 0 => r.val = <<0, 1>>
    /\ calc.rate > 0 => IsWait(r.val, calc.volume, calc.rate)

\* C9: calculate_wait_time(volume, rate) returns 0 when rate <= 0, dividing
\* nothing, and (volume/1000/rate)*3600 + 1.0 when rate > 0; the copies of
\* implement.py and aspirate_volume.py return the same value.
C9_WaitTime ==
    /\ calc.implement # <<>> => WaitAsSpecified(calc.implement[1])
    /\ calc.aspirate # <<>> => WaitAsSpecified(calc.aspirate[1])
    /\ (calc.implement # <<>> /\ calc.aspirate # <<>>) => calc.implement = calc.aspirate

\* Both copies were applied to 500.0 uL at 10.0 mL/h and returned 181 s.
C9_Witness ==
    /\ calc.volume = TARGET_VOLUME_UL
    /\ calc.rate = ASPIRATION_RATE_MLH
    /\ calc.implement = <<Returns(<<181, 1>>)>>
    /\ calc.aspirate = <<Returns(<<181, 1>>)>>

\* Both copies were applied to a rate of zero and returned 0.
C9_WitnessZero ==
    /\ calc.rate = 0
    /\ calc.volume > 0
    /\ calc.implement = <<Returns(<<0, 1>>)>>
    /\ calc.aspirate = <<Returns(<<0, 1>>)>>

----------------------------------------------------------------------------
(* C10 *)

\* The positions of the RUN lines on the wire.
RunLines == {i \in 1 .. Len(wire) : wire[i] = "RUN" \o CRLF}

\* The volumes and rates an orchestrator can send.
SentVolumes == PromptVolumes \cup {TARGET_VOLUME_UL}

SentRates == PromptRates \cup {ASPIRATION_RATE_MLH}

\* Line l sets volume v; line l sets rate r.
IsVol(l, v) == StartsWith(l, "VOL " \o FloatStr(v) \o " ")

IsRat(l, r) == StartsWith(l, "RAT " \o FloatStr(r) \o " ")

\* C10: on the uninterrupted path the orchestrator, after each RUN, sleeps
\* exactly calculate_wait_time(v, r) for the volume and rate it sent last,
\* and the line after the RUN is the STP: the k-th sleep belongs to the
\* k-th RUN, and a run that gets through its sequence has issued a RUN.
C10_SleepAfterRun ==
    (/\ Terminated
     /\ opens = 1
     /\ intr.n = 0
     /\ wfail = 0
     /\ rfail = 0
     /\ script = "implement" => (input.choice # "None" /\ ~input.cancel))
    => /\ RunLines # {}
       /\ Len(slept) = Cardinality(RunLines)
       /\ \A i \in RunLines :
            /\ i > 2
            /\ i < Len(wire)
            /\ wire[i + 1] = STP
            /\ \E v \in SentVolumes, r \in SentRates :
                 /\ \/ IsVol(wire[i - 2], v) /\ IsRat(wire[i - 1], r)
                    \/ IsRat(wire[i - 2], r) /\ IsVol(wire[i - 1], v)
                 /\ IsWait(slept[Cardinality({j \in RunLines : j <= i})], v, r)

----------------------------------------------------------------------------
(* C11 *)

\* main() is at its call of the driver's diameter setter.
AtSetDiameter ==
    /\ InMain
    /\ pc # "done"
    /\ Stmt.op = "call"
    /\ Stmt.m = "set_diameter"

\* C11: calling the driver's diameter setter with 14.5 on a connected pump
\* writes exactly the bytes "DIA 14.5" CR LF to the serial channel, once,
\* and raises no error.  Stated for the call main() makes, when no interrupt
\* arrives and the serial write does not fail.
C11_DiameterBytes ==
    [][(/\ AtSetDiameter
        /\ input.dia = 145
        /\ ser = "open"
        /\ pc' # pc
        /\ intr'.n = intr.n
        /\ wfail' = wfail)
       => /\ wire' = Append(wire, "DIA 14.5" \o CRLF)
          /\ raised' = "none"]_vars

----------------------------------------------------------------------------
(* C12 *)

\* Every RUN on the wire has a DIA before it.
RunHasDiameter ==
    \A i \in 1 .. Len(wire) :
        Verb(wire[i]) = "RUN" => \E j \in 1 .. (i - 1) : Verb(wire[j]) = "DIA"

----------------------------------------------------------------------------
(* Recipe-to-script generator: gen-ppl.py make_coalescence.  The text is   *)
(* built as the f-string builds it, one string with LF line ends; the      *)
(* Japanese comment texts are given in English, the rest is literal.       *)

\* Largest integer volume and wait of the recipes tried.
MaxGenInt == 3

LF == "\n"

\* str(x) of a YAML number, as the f-string renders it: "7", "0.5".
PyStr(x) == IF x.float THEN FloatStr(x.v) ELSE ToString(x.v)

\* make_coalescence with the pause line left out.
make_coalescence_NoPause(leading_uL, trailing_uL, rate_MH, wait_s) ==
    LF
    \o "; Coalescence experiment" \o LF
    \o "; leading droplet: " \o PyStr(leading_uL) \o " uL, trailing droplet: "
       \o PyStr(trailing_uL) \o " uL" \o LF
    \o "; flow rate: " \o PyStr(rate_MH) \o " mL/h, wait: " \o PyStr(wait_s) \o " s" \o LF
    \o "VOL " \o PyStr(leading_uL) \o " uL       ; leading droplet volume ("
       \o PyStr(leading_uL) \o " uL)" \o LF
    \o "RAT " \o PyStr(rate_MH) \o " MH        ; flow rate (" \o PyStr(rate_MH) \o " mL/h)" \o LF
    \o "DIR INF                  ; direction (INF: infuse)" \o LF
    \o "RUN                      ; start the leading droplet" \o LF
    \o "VOL " \o PyStr(trailing_uL) \o " uL     ; trailing droplet volume ("
       \o PyStr(trailing_uL) \o " uL)" \o LF
    \o "RUN                      ; start the trailing droplet" \o LF
    \o "    "

\* make_coalescence(leading_uL, trailing_uL, rate_MH, wait_s): the text of
\* the f-string of lines 25-36 (rate_MH is the source's rate_mlh parameter).
make_coalescence(leading_uL, trailing_uL, rate_MH, wait_s) ==
    LF
    \o "; Coalescence experiment" \o LF
    \o "; leading droplet: " \o PyStr(leading_uL) \o " uL, trailing droplet: "
       \o PyStr(trailing_uL) \o " uL" \o LF
    \o "; flow rate: " \o PyStr(rate_MH) \o " mL/h, wait: " \o PyStr(wait_s) \o " s" \o LF
    \o "VOL " \o PyStr(leading_uL) \o " uL       ; leading droplet volume ("
       \o PyStr(leading_uL) \o " uL)" \o LF
    \o "RAT " \o PyStr(rate_MH) \o " MH        ; flow rate (" \o PyStr(rate_MH) \o " mL/h)" \o LF
    \o "DIR INF                  ; direction (INF: infuse)" \o LF
    \o "RUN                      ; start the leading droplet" \o LF
    \o "PAS " \o PyStr(wait_s) \o "             ; wait before the trailing droplet" \o LF
    \o "VOL " \o PyStr(trailing_uL) \o " uL     ; trailing droplet volume ("
       \o PyStr(trailing_uL) \o " uL)" \o LF
    \o "RUN                      ; start the trailing droplet" \o LF
    \o "    "

\* The recipes tried: volumes and waits as YAML integers (and one float
\* volume), rates as a float and an integer.
GenVolumes == {YInt(n) : n \in 1 .. MaxGenInt} \cup {YInt(7), YFloat(25)}

GenRates == {YFloat(5), YInt(1)}

GenWaits == {YInt(n) : n \in 1 .. MaxGenInt}

InitGen ==
    /\ script = "gen"
    /\ pc = "gen"
    /\ input = NoPrompts(145)
    /\ SetDrvInit(NewPump)
    /\ pending = "none"
    /\ slept = <<>>
    /\ intr = NoIntr
    /\ exc = NoExc
    /\ nCalls = 0
    /\ calc = NoCalc
    /\ gen \in [leading : GenVolumes, trailing : GenVolumes, rate : GenRates,
                wait : GenWaits, out : {<<>>}]

\* make_coalescence is applied to the recipe.
MakeCoalescence ==
    /\ script = "gen"
    /\ gen.out = <<>>
    /\ gen' = [gen EXCEPT !.out =
                  <<make_coalescence(gen.leading, gen.trailing, gen.rate, gen.wait)>>]
    /\ UNCHANGED <<script, pc, input, drvVars, pending, slept, intr, exc, nCalls, calc>>

NextGen == MakeCoalescence

SpecGen == InitGen /\ [][NextGen]_vars

----------------------------------------------------------------------------
(* C13 *)

\* The first position from i on where string s has character c (Len(s) + 1
\* when there is none).
RECURSIVE IndexOf(_, _, _)
IndexOf(s, c, i) ==
    IF i > Len(s) THEN Len(s) + 1
    ELSE IF SubSeq(s, i, i) = c THEN i
    ELSE IndexOf(s, c, i + 1)

\* The pieces of s between the occurrences of c.
RECURSIVE SplitOn(_, _)
SplitOn(s, c) ==
    LET k == IndexOf(s, c, 1) IN
    IF k > Len(s) THEN <<s>>
    ELSE <<SubSeq(s, 1, k - 1)>> \o SplitOn(SubSeq(s, k + 1, Len(s)), c)

\* s without its leading and trailing blanks.
RECURSIVE Trim(_)
Trim(s) ==
    IF s = "" THEN s
    ELSE IF SubSeq(s, 1, 1) = " " THEN Trim(SubSeq(s, 2, Len(s)))
    ELSE IF SubSeq(s, Len(s), Len(s)) = " " THEN Trim(SubSeq(s, 1, Len(s) - 1))
    ELSE s

\* A line without its comment (the text from the first ";" on) and blanks.
CommandOf(line) == Trim(SubSeq(line, 1, IndexOf(line, ";", 1) - 1))

\* The command lines of a script text: comments and empty lines dropped.
CommandLines(text) ==
    LET lines == SplitOn(text, LF)
        cmds == [i \in 1 .. Len(lines) |-> CommandOf(lines[i])]
    IN  SelectSeq(cmds, LAMBDA l : l # "")

\* C13: for every leading volume L, trailing volume T, rate R and wait W the
\* command lines of make_coalescence(L, T, R, W), comments ignored, are
\* VOL L uL, RAT R MH, DIR INF, RUN, PAS W, VOL T uL, RUN, and no others.
C13_CoalescenceScript ==
    gen.out # <<>> =>
        CommandLines(gen.out[1]) =
            <<"VOL " \o PyStr(gen.leading) \o " uL",
              "RAT " \o PyStr(gen.rate) \o " MH",
              "DIR INF",
              "RUN",
              "PAS " \o PyStr(gen.wait),
              "VOL " \o PyStr(gen.trailing) \o " uL",
              "RUN">>

\* The recipe leading 7, trailing 2, rate 0.5, wait 3 was rendered.
C13_Witness ==
    /\ gen.leading = YInt(7)
    /\ gen.trailing = YInt(2)
    /\ gen.rate = YFloat(5)
    /\ gen.wait = YInt(3)
    /\ gen.out # <<>>
    /\ CommandLines(gen.out[1]) =
          <<"VOL 7 uL", "RAT 0.5 MH", "DIR INF", "RUN", "PAS 3", "VOL 2 uL", "RUN">>

----------------------------------------------------------------------------
(* C14 *)

Digits == {"0", "1", "2", "3", "4", "5", "6", "7", "8", "9"}

\* s is a decimal number: digits with at most one point among them.
IsNumber(s) ==
    /\ s # ""
    /\ \A i \in 1 .. Len(s) : SubSeq(s, i, i) \in Digits \cup {"."}
    /\ \E i \in 1 .. Len(s) : SubSeq(s, i, i) \in Digits
    /\ \A i, j \in 1 .. Len(s) :
         (SubSeq(s, i, i) = "." /\ SubSeq(s, j, j) = ".") => i = j

\* The line ends in CR LF.
CrLfTerminated(l) == Len(l) >= 2 /\ SubSeq(l, Len(l) - 1, Len(l)) = CRLF

\* The blank-separated tokens of a line, its CR LF taken off.
Tokens(l) == SplitOn(SubSeq(l, 1, Len(l) - 2), " ")

\* The tokens are a command of the vocabulary
\* DIA <mm>, RAT <value> <MH|MM>, VOL <value> <UL|ML>, DIR|DIRE <INF|WDR>,
\* RUN, STP, RST.
InVocabulary(t) ==
    \/ Len(t) = 2 /\ t[1] = "DIA" /\ IsNumber(t[2])
    \/ Len(t) = 3 /\ t[1] = "RAT" /\ IsNumber(t[2]) /\ t[3] \in {"MH", "MM"}
    \/ Len(t) = 3 /\ t[1] = "VOL" /\ IsNumber(t[2]) /\ t[3] \in {"UL", "ML"}
    \/ Len(t) = 2 /\ t[1] \in {"DIR", "DIRE"} /\ t[2] \in {"INF", "WDR"}
    \/ t \in {<<"RUN">>, <<"STP">>, <<"RST">>}

\* The line is CR LF terminated and a command of the vocabulary.
WellFormed(l) == CrLfTerminated(l) /\ InVocabulary(Tokens(l))

\* C14: every line a method of the driver (called by an orchestrator or by
\* any other caller; a raw send_command of a caller's own text apart) writes
\* to the serial channel is CR+LF terminated and a command of the vocabulary;
\* in particular the unit of a VOL is UL or ML and the unit of a RAT is MH or MM.
C14_Vocabulary ==
    [][(Len(wire') > Len(wire) /\ last' # "send_command")
       => WellFormed(wire'[Len(wire')])]_vars

----------------------------------------------------------------------------
(* C15 *)

\* The most recent of the RUN and STP lines of w is not a RUN: every RUN
\* has an STP after it.
NotRunning(w) ==
    \A i \in 1 .. Len(w) :
        Verb(w[i]) = "RUN" => \E j \in (i + 1) .. Len(w) : Verb(w[j]) = "STP"

----------------------------------------------------------------------------
(* C16 *)

\* C16: across any sequence of driver calls, bytes are written to the serial
\* channel only while the connection is open: a step that writes starts with
\* the connection open, nothing is on the wire before a successful connect,
\* and a send after disconnect() writes nothing and returns None, although
\* disconnect() leaves the closed connection object in place (ser is not
\* reset to None; only a later connect() replaces it).
C16_WritesOnlyWhileOpen ==
    [][/\ wire' # wire => ser = "open"
       /\ opens' = 0 => wire' = <<>>
       /\ (sends' # sends /\ discs >= 1) => (wire' = wire /\ ret' = "None")
       /\ (last' = "disconnect" /\ calls' # calls /\ ser = "open") => ser' = "closed"
       /\ (ser = "closed" /\ ~(last' = "connect" /\ calls' # calls)) => ser' = "closed"]_vars

\* A caller connected, disconnected and then called run(): nothing was
\* written and None came back; the connection object is still there, closed.
C16_Witness ==
    /\ script = "client"
    /\ opens = 1
    /\ discs = 1
    /\ ser = "closed"
    /\ last = "run"
    /\ sends = 1
    /\ wire = <<>>
    /\ ret = "None"

----------------------------------------------------------------------------
(* C17 *)

\* The values a caller may pass to set_rate / set_volume (None: no argument).
SetterValues == {None, 10, 20}

\* The directions a caller may pass to set_direction.
SetterDirections == {"None", "INF", "WDR"}

\* C17: in every state the driver can be in (not connected, open, closed)
\* and for every outcome of the send (delivered, write error, read error),
\* set_rate, set_volume and set_direction store the value given, or the
\* constructor default when given None, in their own field and leave the
\* other two fields as they were.
C17_SettersStore ==
    \A io \in {"ok", "error", "read_error"} :
        /\ \A x \in SetterValues :
              /\ set_rate(Drv, x, io).rate_mlh = (IF x = None THEN default_rate_mlh ELSE x)
              /\ set_rate(Drv, x, io).volume_uL = volume_uL
              /\ set_rate(Drv, x, io).direction = direction
              /\ set_volume(Drv, x, io).volume_uL = (IF x = None THEN default_volume_uL ELSE x)
              /\ set_volume(Drv, x, io).rate_mlh = rate_mlh
              /\ set_volume(Drv, x, io).direction = direction
        /\ \A x \in SetterDirections :
              /\ set_direction(Drv, x, io).direction = (IF x = "None" THEN default_direction ELSE x)
              /\ set_direction(Drv, x, io).rate_mlh = rate_mlh
              /\ set_direction(Drv, x, io).volume_uL = volume_uL

\* A caller called set_rate(2.0) on a pump that was never connected: nothing
\* was sent and the field holds 2.0.
C17_Witness ==
    /\ script = "client"
    /\ ser = "None"
    /\ opens = 0
    /\ last = "set_rate"
    /\ rate_mlh = 20
    /\ volume_uL = None
    /\ wire = <<>>
    /\ ret = "None"

====
